---- MODULE Spec2Model ----
(***************************************************************************)
(* Model of the chatgpt-client package: the prompt-window construction     *)
(* (buildPrompt) and the conversation cache lifecycle of the client        *)
(* (GetOrCreateConversation, ResetConversation(s), ChangeConversationModel)*)
(* and the remote call of the client (Ask, calculationPromptMaxTokens).    *)
(***************************************************************************)
EXTENDS Integers, Sequences, FiniteSets, TLC

(***************************************************************************)
(* Bounds of the model.                                                    *)
(***************************************************************************)
\* longest history handed to buildPrompt
MaxHistory == 3
\* largest maxLength handed to buildPrompt (the smallest is -1)
MaxMaxLength == 100
\* Config.MaxConversations of the client under test
MaxConversations == 2
\* number of conversation objects NewConversation may construct in one run
MaxObjects == 3
\* the clock runs from 0 to MaxTime
MaxTime == 1
\* calculationPromptMaxTokens is applied to every argument from -MaxBudget to
\* MaxBudget (and to the larger values of the documented examples)
MaxBudget == 6
\* longest message list handed to Ask
MaxAskMessages == 2
\* largest number of choices in a response of the remote API
MaxChoices == 2

(***************************************************************************)
(* State.                                                                  *)
(***************************************************************************)
VARIABLES
    \* ---- buildPrompt: parameters
    context, date, messages, maxLength,
    \* ---- buildPrompt: locals
    charCountRes, coreMessages, currentMessage, currentTextLength,
    \* position of the ForEach walk in messages.Reverse() (1 = newest)
    walk,
    \* position at which the callback returned done = true (0: it never did)
    stoppedAt,
    \* number of messages the callback accepted
    accepted,
    \* the returned prompt
    prompt,
    \* "walk" while ForEach runs, "format" after it, "done" after the return
    bpPc,
    \* ---- client
    \* the clock the cache reads
    now,
    \* c.conversationsCache: the entries, most recently used first
    conversationsCache,
    \* the conversation objects constructed so far; an object's identity is
    \* its index, 0 is nil
    conversations,
    \* what the last call of a Client method returned
    ret,
    \* ---- concurrent callers of the client
    \* where each caller is in its call: "ready" between calls, "create"
    \* between the Get and the Set of GetOrCreateConversation, "setmodel"
    \* between the Get and the SetModel of ChangeConversationModel
    pc,
    \* the call each caller makes or made last
    call,
    \* what that call returned
    result,
    \* ---- calculationPromptMaxTokens: arguments, returned value, and
    \* "called" before / "returned" after the call
    calcArgs, calcResult, calcPc,
    \* ---- Ask
    \* c.cfg of the client Ask is called on
    askClientCfg,
    \* the AskConfig handed to Ask
    askCfg,
    \* the requests Ask has sent to the remote API, in order
    requests,
    \* what the remote API returned: the completion and the error
    completion,
    \* what Ask returned: answer and err
    askRet,
    \* "called" while Ask runs, "returned" after its return, "panicked" after
    \* a run-time panic
    askPc,
    \* ---- a caller that keeps a conversation it was returned
    \* the conversation the caller keeps (nil: none)
    held

bpVars == <<context, date, messages, maxLength, charCountRes, coreMessages,
            currentMessage, currentTextLength, walk, stoppedAt, accepted,
            prompt, bpPc>>

clientVars == <<now, conversationsCache, conversations, ret>>

threadVars == <<pc, call, result>>

calcVars == <<calcArgs, calcResult, calcPc>>

askVars == <<askClientCfg, askCfg, requests, completion, askRet, askPc>>

vars == <<bpVars, clientVars, threadVars, calcVars, askVars, held>>

(***************************************************************************)
(* buildPrompt                                                             *)
(***************************************************************************)
endMessage == "ChatGPT:"
endOfText == "<|endoftext|>\n\n"

\* fmt.Sprintf("%s\nCurrent date: %s", context, date)
ContextMessage(ctx, d) == ctx \o "\nCurrent date: " \o d

\* messages.Reverse(): the same elements, last first
Reverse(s) == [k \in 1..Len(s) |-> s[Len(s) + 1 - k]]

\* the rendering of one message by the callback
RenderMessage(message) ==
    IF message.IsChatGPT
        THEN "ChatGPT:\n\n" \o message.Text
        ELSE IF message.User # ""
            THEN message.User \o ":\n\n" \o message.Text
            ELSE "User:\n\n" \o message.Text

ShouldStopStrict(maxLen, count, textLength) ==
    maxLen > 0 /\ count + textLength > maxLen

ShouldStopAlways(maxLen, count, textLength) ==
    count + textLength >= maxLen

ShouldStopIgnoringCurrent(maxLen, count, textLength) ==
    maxLen > 0 /\ count >= maxLen

\* the test that ends the walk
ShouldStop(maxLen, count, textLength) ==
    maxLen > 0 /\ count + textLength >= maxLen

AccumulateAppend(cur, core) == core \o cur \o endOfText

\* fmt.Sprintf("%s%s%s", currentMessage, endOfText, coreMessages)
Accumulate(cur, core) == cur \o endOfText \o core

\* the messages buildPrompt is called with
Texts == {"hi", "a longer answer"}
Users == {"", "Al"}
\* (a message with a speaker label carries the short text)
Message ==
    {message \in [IsChatGPT : BOOLEAN, User : Users, Text : Texts] :
        message.User = "" \/ message.Text = "hi"}
Histories == UNION {[1..n -> Message] : n \in 0..MaxHistory}
Contexts == {"", "You are helpful"}
Dates == {"2024-01-01"}
MaxLengths == (-1)..MaxMaxLength

\* no call of buildPrompt is under way
BuildPromptIdle ==
    /\ context = ""
    /\ date = ""
    /\ messages = <<>>
    /\ maxLength = 0
    /\ charCountRes = 0
    /\ coreMessages = ""
    /\ currentMessage = ""
    /\ currentTextLength = 0
    /\ walk = 1
    /\ stoppedAt = 0
    /\ accepted = 0
    /\ prompt = ""
    /\ bpPc = "idle"

\* a call of buildPrompt, up to the ForEach
BuildPromptInit ==
    /\ context \in Contexts
    /\ date \in Dates
    /\ messages \in Histories
    /\ maxLength \in MaxLengths
    /\ charCountRes = Len(ContextMessage(context, date)) + Len(endMessage)
    /\ coreMessages = ""
    /\ currentMessage = ""
    /\ currentTextLength = 0
    /\ walk = 1
    /\ stoppedAt = 0
    /\ accepted = 0
    /\ prompt = ""
    /\ bpPc = "walk"

ForEachStepSkip ==
    /\ bpPc = "walk"
    /\ walk <= Len(messages)
    /\ LET message == Reverse(messages)[walk]
           cur == RenderMessage(message)
           len == Len(cur) + Len(endOfText)
       IN  /\ currentMessage' = cur
           /\ currentTextLength' = len
           /\ walk' = walk + 1
           /\ IF ShouldStop(maxLength, charCountRes, len)
                THEN /\ stoppedAt' = IF stoppedAt = 0 THEN walk ELSE stoppedAt
                     /\ UNCHANGED <<charCountRes, coreMessages, accepted>>
                ELSE /\ charCountRes' = charCountRes + len
                     /\ coreMessages' = Accumulate(cur, coreMessages)
                     /\ accepted' = accepted + 1
                     /\ UNCHANGED stoppedAt
    /\ UNCHANGED <<context, date, messages, maxLength, prompt, bpPc>>
    /\ UNCHANGED <<clientVars, threadVars, calcVars, askVars, held>>

\* one call of the ForEach callback, on the next message of the reversed list
ForEachStep ==
    /\ bpPc = "walk"
    /\ walk <= Len(messages)
    /\ LET message == Reverse(messages)[walk]
           cur == RenderMessage(message)
           len == Len(cur) + Len(endOfText)
       IN  /\ currentMessage' = cur
           /\ currentTextLength' = len
           /\ IF ShouldStop(maxLength, charCountRes, len)
                THEN /\ stoppedAt' = walk
                     /\ bpPc' = "format"
                     /\ UNCHANGED <<charCountRes, coreMessages, accepted, walk>>
                ELSE /\ charCountRes' = charCountRes + len
                     /\ coreMessages' = Accumulate(cur, coreMessages)
                     /\ accepted' = accepted + 1
                     /\ walk' = walk + 1
                     /\ UNCHANGED <<stoppedAt, bpPc>>
    /\ UNCHANGED <<context, date, messages, maxLength, prompt>>
    /\ UNCHANGED <<clientVars, threadVars, calcVars, askVars, held>>

\* ForEach ran out of messages
ForEachEnd ==
    /\ bpPc = "walk"
    /\ walk > Len(messages)
    /\ bpPc' = "format"
    /\ UNCHANGED <<context, date, messages, maxLength, charCountRes,
                   coreMessages, currentMessage, currentTextLength, walk,
                   stoppedAt, accepted, prompt>>
    /\ UNCHANGED <<clientVars, threadVars, calcVars, askVars, held>>

\* the final Sprintf and the return
Format ==
    /\ bpPc = "format"
    /\ prompt' = ContextMessage(context, date) \o endOfText \o coreMessages
                    \o endMessage
    /\ bpPc' = "done"
    /\ UNCHANGED <<context, date, messages, maxLength, charCountRes,
                   coreMessages, currentMessage, currentTextLength, walk,
                   stoppedAt, accepted>>
    /\ UNCHANGED <<clientVars, threadVars, calcVars, askVars, held>>

BuildPromptNext == ForEachStep \/ ForEachEnd \/ Format

(***************************************************************************)
(* Properties of buildPrompt (checked under SpecBuildPrompt)               *)
(***************************************************************************)
\* the k newest messages of the history, oldest first
Newest(k) == SubSeq(messages, Len(messages) - k + 1, Len(messages))

\* a history rendered front to back, each message followed by the separator
RECURSIVE ChronologicalBlock(_)
ChronologicalBlock(s) ==
    IF s = <<>> THEN ""
    ELSE RenderMessage(Head(s)) \o endOfText \o ChronologicalBlock(Tail(s))

\* header + separator + the given messages in the given order + trailer
Assemble(s) ==
    ContextMessage(context, date) \o endOfText \o ChronologicalBlock(s)
        \o endMessage

\* length with separator of the j-th newest message
LengthWithSeparator(j) ==
    Len(RenderMessage(Reverse(messages)[j])) + Len(endOfText)

\* total length with separators of the j newest messages
RECURSIVE LengthOfNewest(_)
LengthOfNewest(j) ==
    IF j = 0 THEN 0 ELSE LengthOfNewest(j - 1) + LengthWithSeparator(j)

\* the budget counter before any message is walked
InitialBudget == Len(ContextMessage(context, date)) + Len(endMessage)

Stopped == bpPc = "done" /\ maxLength > 0 /\ stoppedAt # 0

WholeMessages == \E k \in 0..Len(messages) : prompt = Assemble(Newest(k))

\* C1 (as stated): when buildPrompt stops on a message m, the prompt is
\* shorter than maxLength plus the rendered length of m, and every message is
\* included whole or not at all.
C1_Original ==
    Stopped =>
        /\ Len(prompt)
              < maxLength + Len(RenderMessage(Reverse(messages)[stoppedAt]))
        /\ WholeMessages

\* C1 (amended): when buildPrompt stops on a message and has included at
\* least one message, the prompt is shorter than maxLength plus the length of
\* the separator; when it has included none the prompt is header + separator
\* + trailer whatever maxLength is; every message is included whole or not at
\* all.
C1_TruncationBoundary ==
    Stopped =>
        /\ accepted > 0 => Len(prompt) < maxLength + Len(endOfText)
        /\ accepted = 0 => prompt = Assemble(<<>>)
        /\ WholeMessages

\* C1 witness: a stop after at least one accepted message, with the prompt
\* longer than maxLength.
C1_Witness ==
    Stopped /\ accepted > 0 /\ Len(prompt) > maxLength

\* the walk positions whose message brings the budget to maxLength or more,
\* all newer messages having been taken
Overflowing ==
    {j \in 1..Len(messages) : InitialBudget + LengthOfNewest(j) >= maxLength}

\* C2: with maxLength > 0 the first message, newest first, that brings the
\* budget to maxLength or more ends the walk; it and all older messages are
\* left out, so the included messages are exactly the block of the newest
\* messages before it.
C2_HardStop ==
    (bpPc = "done" /\ maxLength > 0) =>
        IF Overflowing = {}
            THEN stoppedAt = 0 /\ accepted = Len(messages)
            ELSE /\ \A j \in Overflowing : stoppedAt <= j
                 /\ stoppedAt \in Overflowing
                 /\ accepted = stoppedAt - 1
                 /\ Len(prompt) = InitialBudget + Len(endOfText)
                                    + LengthOfNewest(stoppedAt - 1)

\* C2 witness: the walk stopped although an older message would have fitted
\* in the remaining budget.
C2_Witness ==
    /\ Stopped
    /\ accepted > 0
    /\ \E j \in (stoppedAt + 1)..Len(messages) :
          charCountRes + LengthWithSeparator(j) < maxLength

\* C3: the included messages appear in the prompt in chronological order
\* (oldest first), for any history and any maxLength.
C3_OrderingPreserved ==
    bpPc = "done" => prompt = Assemble(Newest(accepted))

\* C3 witness: two different messages were included.
C3_Witness ==
    /\ bpPc = "done"
    /\ accepted >= 2
    /\ Newest(accepted)[1] # Newest(accepted)[2]

\* C4: with maxLength <= 0 every message of the history is included,
\* whatever the total length.
C4_Unbounded ==
    (bpPc = "done" /\ maxLength <= 0) =>
        /\ stoppedAt = 0
        /\ accepted = Len(messages)
        /\ Len(prompt) = InitialBudget + Len(endOfText)
                            + LengthOfNewest(Len(messages))

\* C4 witness: an unbounded call on a history of three messages whose prompt
\* is longer than any maxLength of the model.
C4_Witness ==
    /\ bpPc = "done"
    /\ maxLength <= 0
    /\ Len(messages) >= 3
    /\ Len(prompt) > 150

(***************************************************************************)
(* The client and its conversation cache                                   *)
(***************************************************************************)
\* the identifiers conversations are asked for
Ids == {"a", "b", "c"}
\* the models ChangeConversationModel is called with
Models == {"gpt-3.5-turbo"}

\* the default max age of a conversation, in clock ticks
DefaultConversationMaxAge == 2

\* the Config the client was constructed with, after the defaults of New
ClientConfig ==
    [MaxConversations |-> MaxConversations,
     ConversationMaxAge |-> 3,
     ConversationContext |-> "Be helpful",
     ConversationLanguage |-> "en",
     ChatGPTName |-> "ChatGPT"]

\* the ConversationConfig values callers pass: one with every field unset,
\* and one that was filled in for conversation "b" and is used again
ConversationConfig ==
    {[ID |-> "", MaxAge |-> 0, Context |-> "", Language |-> "",
      ChatGPTName |-> ""],
     [ID |-> "b", MaxAge |-> 1, Context |-> "Be brief", Language |-> "fr",
      ChatGPTName |-> "Bot"]}

NewCapacityOneMore(cfg) == cfg.MaxConversations + 1

\* lru.New(cfg.MaxConversations): the capacity of the cache
NewCapacity(cfg) == cfg.MaxConversations

Capacity == NewCapacity(ClientConfig)

\* ---- the cache (github.com/go-zoox/lru)
\* the entry is past its time-to-live
Expired(e, t) == t >= e.expiresAt

\* position of key in the cache, 0 when it has no entry
Position(cache, key) ==
    IF \E k \in 1..Len(cache) : cache[k].key = key
        THEN CHOOSE k \in 1..Len(cache) : cache[k].key = key
        ELSE 0

\* the cache without its k-th entry
Without(cache, k) ==
    SubSeq(cache, 1, k - 1) \o SubSeq(cache, k + 1, Len(cache))

\* LRU.Get: an expired entry is removed and reported absent, a live one
\* becomes the most recently used
LruGet(cache, key, t) ==
    LET k == Position(cache, key)
    IN  IF k = 0
            THEN [ok |-> FALSE, value |-> 0, cache |-> cache]
            ELSE IF Expired(cache[k], t)
                THEN [ok |-> FALSE, value |-> 0, cache |-> Without(cache, k)]
                ELSE [ok |-> TRUE, value |-> cache[k].value,
                      cache |-> <<cache[k]>> \o Without(cache, k)]

\* LRU.Set: the entry becomes the most recently used; a new key in a full
\* cache evicts the least recently used entry
LruSet(cache, key, value, maxAge, t) ==
    LET e == [key |-> key, value |-> value, expiresAt |-> t + maxAge]
        k == Position(cache, key)
    IN  IF k # 0
            THEN <<e>> \o Without(cache, k)
            ELSE IF Len(cache) >= Capacity
                THEN <<e>> \o SubSeq(cache, 1, Capacity - 1)
                ELSE <<e>> \o cache

\* LRU.Delete
LruDelete(cache, key) ==
    LET k == Position(cache, key)
    IN  IF k = 0 THEN cache ELSE Without(cache, k)

\* LRU.Clear
LruClear(cache) == <<>>

\* ---- conversations
\* NewConversation(c, cfg): a conversation with the settings of cfg
NewConversation(cfg) ==
    [ID |-> cfg.ID, MaxAge |-> cfg.MaxAge, Context |-> cfg.Context,
     Language |-> cfg.Language, ChatGPTName |-> cfg.ChatGPTName,
     Model |-> ""]

\* conversation.SetModel(model)
SetModel(conversation, model) == [conversation EXCEPT !.Model = model]

nil == 0
NoError == "nil"
NotFound == "conversation not found"

\* ---- the Client methods
\* New: the client right after construction
New ==
    /\ now = 0
    /\ conversationsCache = <<>>
    /\ conversations = <<>>
    /\ ret = [conversation |-> nil, err |-> NoError]

\* the caller keeps no conversation
NothingHeld == held = nil

\* the defaults GetOrCreateConversation writes into cfg
Defaults(id, cfg) ==
    [ID |-> IF cfg.ID = "" THEN id ELSE cfg.ID,
     MaxAge |-> IF cfg.MaxAge = 0 THEN DefaultConversationMaxAge
                ELSE cfg.MaxAge,
     Context |-> IF cfg.Context = "" /\ ClientConfig.ConversationContext # ""
                    THEN ClientConfig.ConversationContext ELSE cfg.Context,
     Language |-> IF cfg.Language = "" /\ ClientConfig.ConversationLanguage # ""
                    THEN ClientConfig.ConversationLanguage ELSE cfg.Language,
     ChatGPTName |-> IF cfg.ChatGPTName = "" THEN ClientConfig.ChatGPTName
                     ELSE cfg.ChatGPTName]

\* what the garbage collector leaves of an object nothing refers to
Collected ==
    [ID |-> "", MaxAge |-> 0, Context |-> "", Language |-> "",
     ChatGPTName |-> "", Model |-> ""]

\* the objects the cache, the last returned value or the caller refers to
Referenced(cache, r) ==
    {cache[k].value : k \in 1..Len(cache)} \cup {r.conversation, held}

\* the objects after a collection that keeps those of roots
Collect(objects, roots) ==
    [k \in 1..Len(objects) |->
        IF k \in roots THEN objects[k] ELSE Collected]

\* the end of a Client method: the cache and the objects it leaves, and what
\* it returns; objects that are no longer referenced are collected
Return(cache, objects, r) ==
    /\ conversationsCache' = cache
    /\ conversations' = Collect(objects, Referenced(cache, r))
    /\ ret' = r
    /\ UNCHANGED now

GetOrCreateConversation(id, cfg0) ==
    LET cfg == Defaults(id, cfg0)
        got == LruGet(conversationsCache, cfg.ID, now)
        new == Len(conversations) + 1
    IN  IF got.ok
            THEN Return(got.cache, conversations,
                        [conversation |-> got.value, err |-> NoError])
            ELSE /\ Len(conversations) < MaxObjects
                 /\ Return(LruSet(got.cache, id, new, cfg.MaxAge, now),
                           Append(conversations, NewConversation(cfg)),
                           [conversation |-> new, err |-> NoError])

ResetConversations ==
    Return(LruClear(conversationsCache), conversations,
           [conversation |-> nil,
            err |-> NoError])

ResetConversationNoDelete(id) ==
    Return(conversationsCache, conversations,
           [conversation |-> nil,
            err |-> NoError])

ResetConversation(id) ==
    Return(LruDelete(conversationsCache, id), conversations,
           [conversation |-> nil,
            err |-> NoError])

\* GetConversation(id): the lookup and its outcome
GetConversation(cache, id, t) ==
    LET got == LruGet(cache, id, t)
    IN  [conversation |-> got.value,
         err |-> IF got.ok THEN NoError ELSE NotFound,
         cache |-> got.cache]

ChangeConversationModelNoError(conversationID, model) ==
    LET got == GetConversation(conversationsCache, conversationID, now)
    IN  Return(got.cache,
               IF got.err # NoError THEN conversations
               ELSE [conversations EXCEPT ![got.conversation] =
                        SetModel(conversations[got.conversation], model)],
               [conversation |-> nil, err |-> NoError])

ChangeConversationModel(conversationID, model) ==
    LET got == GetConversation(conversationsCache, conversationID, now)
    IN  IF got.err # NoError
            THEN Return(got.cache, conversations,
                        [conversation |-> nil,
                         err |-> got.err])
            ELSE Return(got.cache,
                        [conversations EXCEPT ![got.conversation] =
                            SetModel(conversations[got.conversation], model)],
                        [conversation |-> nil,
                         err |-> NoError])

\* time passes
Tick ==
    /\ now < MaxTime
    /\ now' = now + 1
    /\ UNCHANGED <<conversationsCache, conversations, ret>>
    /\ UNCHANGED <<bpVars, threadVars, calcVars, askVars, held>>

CallGetOrCreateConversation ==
    /\ \E id \in Ids, cfg \in ConversationConfig :
          GetOrCreateConversation(id, cfg)
    /\ UNCHANGED <<bpVars, threadVars, calcVars, askVars, held>>

CallResetConversations ==
    /\ ResetConversations
    /\ UNCHANGED <<bpVars, threadVars, calcVars, askVars, held>>

CallResetConversation ==
    /\ \E id \in Ids : ResetConversation(id)
    /\ UNCHANGED <<bpVars, threadVars, calcVars, askVars, held>>

CallChangeConversationModel ==
    /\ \E id \in Ids, model \in Models : ChangeConversationModel(id, model)
    /\ UNCHANGED <<bpVars, threadVars, calcVars, askVars, held>>

\* ---- a caller that keeps a conversation
\* the ConversationConfig this caller passes: only the max age is set
KeptConfig ==
    [ID |-> "", MaxAge |-> 1, Context |-> "", Language |-> "",
     ChatGPTName |-> ""]

\* the model this caller sets on the conversation it keeps
HeldModels == {"gpt-4"}

\* the conversation the caller keeps has no live entry in the cache
HeldRemoved ==
    /\ held # nil
    /\ \A k \in 1..Len(conversationsCache) :
           conversationsCache[k].value = held
               => Expired(conversationsCache[k], now)

KeeperGetOrCreateConversation ==
    /\ \E id \in Ids : GetOrCreateConversation(id, KeptConfig)
    /\ UNCHANGED <<bpVars, threadVars, calcVars, askVars, held>>

\* the caller keeps the first conversation the client constructed, from the
\* call that returned it on
Hold ==
    /\ held = nil
    /\ ret.conversation = 1
    /\ held' = ret.conversation
    /\ UNCHANGED <<now, conversationsCache, conversations, ret>>
    /\ UNCHANGED <<bpVars, threadVars, calcVars, askVars>>

\* the caller calls SetModel on the conversation it keeps, after the cache
\* has lost it
HeldSetModel ==
    /\ HeldRemoved
    /\ \E model \in HeldModels :
           conversations' =
               [conversations EXCEPT ![held] = SetModel(conversations[held],
                                                        model)]
    /\ UNCHANGED <<now, conversationsCache, ret, held>>
    /\ UNCHANGED <<bpVars, threadVars, calcVars, askVars>>

\* time passes while the caller keeps the conversation
HeldTick == held # nil /\ Tick

\* ---- concurrent callers
Threads == {1, 2}

\* the ids the concurrent callers use
ConcurrentIds == {"a", "b"}

NoCall ==
    [op |-> "", id |-> "", cfg |-> Collected, model |-> "", object |-> nil,
     ownKey |-> FALSE, absent |-> FALSE, overlapped |-> {}]

\* what is kept of a call once it has returned
Returned(c) == [c EXCEPT !.cfg = Collected, !.model = "", !.object = nil]

\* no caller has called yet
ThreadsReady ==
    /\ pc = [t \in Threads |-> "ready"]
    /\ call = [t \in Threads |-> NoCall]
    /\ result = [t \in Threads |-> [conversation |-> nil, err |-> NoError]]

\* the callers that are inside a call
Busy == {u \in Threads : pc[u] # "ready"}

\* caller t enters call c: the calls under way overlap with it
Enter(t, c) ==
    [u \in Threads |->
        IF u = t THEN [c EXCEPT !.overlapped = Busy \ {t}]
        ELSE IF u \in Busy
            THEN [call[u] EXCEPT !.overlapped = call[u].overlapped \cup {t}]
            ELSE call[u]]

\* the objects the cache or a caller refers to
Roots(cache, calls, results) ==
    {cache[k].value : k \in 1..Len(cache)}
        \cup {calls[t].object : t \in Threads}
        \cup {results[t].conversation : t \in Threads}
        \cup {held}

\* the end of a step of caller t
Step(t, cache, objects, position, c, r) ==
    /\ conversationsCache' = cache
    /\ pc' = [pc EXCEPT ![t] = position]
    /\ call' = c
    /\ result' = [result EXCEPT ![t] = r]
    /\ conversations' = Collect(objects, Roots(cache, call', result'))
    /\ UNCHANGED <<now, ret, bpVars, calcVars, askVars, held>>

\* GetOrCreateConversation up to the Get, and its return on a hit
ThreadGetOrCreateConversation(t, id, cfg0) ==
    /\ pc[t] = "ready"
    /\ LET cfg == Defaults(id, cfg0)
           got == LruGet(conversationsCache, cfg.ID, now)
           c == [op |-> "GetOrCreateConversation", id |-> id, cfg |-> cfg,
                 model |-> "", object |-> nil, ownKey |-> cfg.ID = id,
                 absent |-> ~got.ok, overlapped |-> {}]
       IN  IF got.ok
               THEN Step(t, got.cache, conversations, "ready",
                         Enter(t, Returned(c)),
                         [conversation |-> got.value, err |-> NoError])
               ELSE Step(t, got.cache, conversations, "create", Enter(t, c),
                         [conversation |-> nil, err |-> NoError])

\* GetOrCreateConversation after a miss: NewConversation, Set, return
ThreadCreate(t) ==
    /\ pc[t] = "create"
    /\ Len(conversations) < MaxObjects
    /\ LET new == Len(conversations) + 1
       IN  Step(t,
                LruSet(conversationsCache, call[t].id, new,
                       call[t].cfg.MaxAge, now),
                Append(conversations, NewConversation(call[t].cfg)),
                "ready", [call EXCEPT ![t] = Returned(call[t])],
                [conversation |-> new, err |-> NoError])

ThreadResetConversations(t) ==
    /\ pc[t] = "ready"
    /\ Step(t, LruClear(conversationsCache), conversations, "ready",
            Enter(t, [NoCall EXCEPT !.op = "ResetConversations"]),
            [conversation |-> nil, err |-> NoError])

ThreadResetConversation(t, id) ==
    /\ pc[t] = "ready"
    /\ Step(t, LruDelete(conversationsCache, id), conversations, "ready",
            Enter(t, [NoCall EXCEPT !.op = "ResetConversation", !.id = id]),
            [conversation |-> nil, err |-> NoError])

\* ChangeConversationModel up to GetConversation, and its return on an error
ThreadChangeConversationModel(t, id, model) ==
    /\ pc[t] = "ready"
    /\ LET got == GetConversation(conversationsCache, id, now)
           c == [NoCall EXCEPT !.op = "ChangeConversationModel", !.id = id,
                               !.model = model,
                               !.object = got.conversation,
                               !.absent = got.err # NoError]
       IN  IF got.err # NoError
               THEN Step(t, got.cache, conversations, "ready",
                         Enter(t, Returned(c)),
                         [conversation |-> nil, err |-> got.err])
               ELSE Step(t, got.cache, conversations, "setmodel",
                         Enter(t, c), [conversation |-> nil, err |-> NoError])

\* ChangeConversationModel after the lookup: SetModel, return
ThreadSetModel(t) ==
    /\ pc[t] = "setmodel"
    /\ Step(t, conversationsCache,
            [conversations EXCEPT ![call[t].object] =
                SetModel(conversations[call[t].object], call[t].model)],
            "ready", [call EXCEPT ![t] = Returned(call[t])],
            [conversation |-> nil, err |-> NoError])

ConcurrentGetOrCreateConversation ==
    \E t \in Threads, id \in ConcurrentIds, cfg \in ConversationConfig :
        ThreadGetOrCreateConversation(t, id, cfg)

ConcurrentCreate == \E t \in Threads : ThreadCreate(t)

ConcurrentResetConversations == \E t \in Threads : ThreadResetConversations(t)

ConcurrentResetConversation ==
    \E t \in Threads, id \in ConcurrentIds : ThreadResetConversation(t, id)

ConcurrentChangeConversationModel ==
    \E t \in Threads, id \in ConcurrentIds, model \in Models :
        ThreadChangeConversationModel(t, id, model)

ConcurrentSetModel == \E t \in Threads : ThreadSetModel(t)

(***************************************************************************)
(* calculationPromptMaxTokens and Ask                                      *)
(***************************************************************************)
\* math.Max and math.Min on the values the model draws; float64(x) and
\* int(f) are exact on integers of magnitude below 2^53, which every value
\* of the model is, so an integer stands for its float64
MathMax(x, y) == IF x > y THEN x ELSE y

MathMin(x, y) == IF x < y THEN x ELSE y

calculationPromptMaxTokensRoom(questLength, MaxRequestResponseTokens, MaxResponseTokens) ==
    LET numTokens == questLength
    IN  MathMax(MaxResponseTokens, MaxRequestResponseTokens - numTokens)

calculationPromptMaxTokensNoFloor(questLength, MaxRequestResponseTokens, MaxResponseTokens) ==
    LET numTokens == questLength
    IN  MathMin(MaxRequestResponseTokens - numTokens, MaxResponseTokens)

calculationPromptMaxTokens(questLength, MaxRequestResponseTokens, MaxResponseTokens) ==
    LET numTokens == questLength
    IN  MathMax(MaxResponseTokens,
                MathMin(MaxRequestResponseTokens - numTokens,
                        MaxResponseTokens))

\* the arguments calculationPromptMaxTokens is applied to
QuestLengths == ((-MaxBudget)..MaxBudget) \cup {10, 100}

RequestResponseBudgets == ((-MaxBudget)..MaxBudget) \cup {120, 1000}

ResponseBudgets == ((-MaxBudget)..MaxBudget) \cup {50}

CalculationArgs ==
    [questLength : QuestLengths,
     MaxRequestResponseTokens : RequestResponseBudgets,
     MaxResponseTokens : ResponseBudgets]

\* no call of calculationPromptMaxTokens under way
CalculationIdle ==
    /\ calcArgs = [questLength |-> 0, MaxRequestResponseTokens |-> 0,
                   MaxResponseTokens |-> 0]
    /\ calcResult = 0
    /\ calcPc = "idle"

\* a call of calculationPromptMaxTokens, before its body
CalculationCall ==
    /\ calcArgs \in CalculationArgs
    /\ calcResult = 0
    /\ calcPc = "called"

\* the body of calculationPromptMaxTokens
Calculate ==
    /\ calcPc = "called"
    /\ calcResult' = calculationPromptMaxTokens(calcArgs.questLength,
                         calcArgs.MaxRequestResponseTokens,
                         calcArgs.MaxResponseTokens)
    /\ calcPc' = "returned"
    /\ UNCHANGED calcArgs
    /\ UNCHANGED <<bpVars, clientVars, threadVars, askVars, held>>

\* the chat-completion model identifiers of the openai client
ModelGPT3_5Turbo == "gpt-3.5-turbo"

ModelGPT3_5Turbo0301 == "gpt-3.5-turbo-0301"

IsChatModelTurboOnly(model) == model = ModelGPT3_5Turbo

\* the case of the switch on cfg.Model
IsChatModel(model) == model \in {ModelGPT3_5Turbo, ModelGPT3_5Turbo0301}

RECURSIVE RangeMessagesPrepend(_, _, _)
RangeMessagesPrepend(rest, currentMessageLength, chatMessages) ==
    IF rest = <<>>
        THEN [currentMessageLength |-> currentMessageLength,
              messages |-> chatMessages]
        ELSE RangeMessagesPrepend(Tail(rest),
                 currentMessageLength + Len(Head(rest).Text),
                 <<[Role |-> Head(rest).Role, Content |-> Head(rest).Text]>>
                     \o chatMessages)

\* the loop over cfg.Messages: rest is what the range has not reached yet
RECURSIVE RangeMessages(_, _, _)
RangeMessages(rest, currentMessageLength, chatMessages) ==
    IF rest = <<>>
        THEN [currentMessageLength |-> currentMessageLength,
              messages |-> chatMessages]
        ELSE RangeMessages(Tail(rest),
                 currentMessageLength + Len(Head(rest).Text),
                 Append(chatMessages,
                        [Role |-> Head(rest).Role,
                         Content |-> Head(rest).Text]))

\* the request of the chat path
CreateChatCompletionRequest(cfg, clientCfg) ==
    LET loop == RangeMessages(cfg.Messages, 0, <<>>)
        maxTokens == calculationPromptMaxTokens(loop.currentMessageLength,
                         cfg.MaxRequestResponseTokens,
                         clientCfg.MaxResponseTokens)
    IN  [op |-> "CreateChatCompletion",
         Model |-> cfg.Model,
         Messages |-> loop.messages,
         MaxTokens |-> maxTokens,
         Temperature |-> "0.1"]

\* the request of the prompt path
CreateCompletionRequest(cfg, clientCfg) ==
    LET questionX == cfg.Prompt
        maxTokens == calculationPromptMaxTokens(Len(questionX),
                         cfg.MaxRequestResponseTokens,
                         clientCfg.MaxResponseTokens)
    IN  [op |-> "CreateCompletion",
         Model |-> cfg.Model,
         Prompt |-> questionX,
         MaxTokens |-> maxTokens]

\* an answer text is a sequence of characters
IsSpace(char) == char \in {" ", "\t", "\n", "\r", "\f"}

RECURSIVE TrimLeft(_)
TrimLeft(text) ==
    IF text # <<>> /\ IsSpace(Head(text)) THEN TrimLeft(Tail(text)) ELSE text

RECURSIVE TrimRight(_)
TrimRight(text) ==
    IF text # <<>> /\ IsSpace(text[Len(text)])
        THEN TrimRight(SubSeq(text, 1, Len(text) - 1))
        ELSE text

TrimSpace(text) == TrimRight(TrimLeft(text))

\* the inputs of Ask
Roles == {"user", "assistant"}

AskMessage == [Role : Roles, Text : Texts]

AskHistories ==
    UNION {[1..n -> AskMessage] : n \in 0..MaxAskMessages}

AskModels ==
    {ModelGPT3_5Turbo, ModelGPT3_5Turbo0301, "text-davinci-003", ""}

Prompts == {"", "You are helpful\nCurrent date: 2024-01-01<|endoftext|>\n\nChatGPT:"}

AskConfig ==
    [Model : AskModels, Prompt : Prompts, Messages : AskHistories,
     MaxRequestResponseTokens : {0, 4000}]

AskClientConfig == [MaxResponseTokens : {5, 1000}]

\* what the remote API can return: an error, or a completion with any number
\* of choices
RemoteError == "remote error"

AnswerTexts == {<<"h", "i">>, <<" ", "h", " ", "i", "\n">>, <<"\n", " ">>}

Choices == UNION {[1..n -> AnswerTexts] : n \in 0..MaxChoices}

Completions ==
    {[err |-> RemoteError, Choices |-> <<>>]}
        \cup {[err |-> NoError, Choices |-> choices] : choices \in Choices}

\* the answer Ask returns: the nil slice, or the bytes of a text
NoAnswer == <<>>

Answer(text) == <<text>>

\* no call of Ask under way
AskIdle ==
    /\ askClientCfg = [MaxResponseTokens |-> 1000]
    /\ askCfg = [Model |-> "", Prompt |-> "", Messages |-> <<>>,
                 MaxRequestResponseTokens |-> 0]
    /\ requests = <<>>
    /\ completion = [err |-> NoError, Choices |-> <<>>]
    /\ askRet = [answer |-> NoAnswer, err |-> NoError]
    /\ askPc = "idle"

\* a call of Ask, before its body
AskCall ==
    /\ askClientCfg \in AskClientConfig
    /\ askCfg \in AskConfig
    /\ requests = <<>>
    /\ completion = [err |-> NoError, Choices |-> <<>>]
    /\ askRet = [answer |-> NoAnswer, err |-> NoError]
    /\ askPc = "called"

\* the body of Ask: the request is built and sent, the remote API returns,
\* and Ask returns the error, indexes a choice that is not there, or returns
\* the trimmed text of the first choice
Ask ==
    /\ askPc = "called"
    /\ \E response \in Completions :
        /\ requests' = Append(requests,
               IF IsChatModel(askCfg.Model)
                   THEN CreateChatCompletionRequest(askCfg, askClientCfg)
                   ELSE CreateCompletionRequest(askCfg, askClientCfg))
        /\ completion' = response
        /\ IF response.err # NoError
               THEN /\ askRet' = [answer |-> NoAnswer, err |-> response.err]
                    /\ askPc' = "returned"
               ELSE IF Len(response.Choices) = 0
                   THEN /\ askPc' = "panicked"
                        /\ UNCHANGED askRet
                   ELSE /\ askRet' =
                            [answer |-> Answer(TrimSpace(response.Choices[1])),
                             err |-> NoError]
                        /\ askPc' = "returned"
    /\ UNCHANGED <<askClientCfg, askCfg>>
    /\ UNCHANGED <<bpVars, clientVars, threadVars, calcVars, held>>

(***************************************************************************)
(* Specifications                                                          *)
(***************************************************************************)
Init ==
    /\ BuildPromptIdle /\ New /\ ThreadsReady /\ CalculationIdle /\ AskIdle
    /\ NothingHeld

Next ==
    \/ CallGetOrCreateConversation
    \/ CallResetConversations
    \/ CallResetConversation
    \/ CallChangeConversationModel
    \/ Tick

\* the client used by one caller at a time
Spec == Init /\ [][Next]_vars

\* one call of buildPrompt
BuildPromptCall ==
    /\ BuildPromptInit /\ New /\ ThreadsReady /\ CalculationIdle /\ AskIdle
    /\ NothingHeld

SpecBuildPrompt == BuildPromptCall /\ [][BuildPromptNext]_vars

ConcurrentNext ==
    \/ ConcurrentGetOrCreateConversation
    \/ ConcurrentCreate
    \/ ConcurrentResetConversations
    \/ ConcurrentResetConversation
    \/ ConcurrentChangeConversationModel
    \/ ConcurrentSetModel

\* the client shared by concurrent callers, at one instant of the clock; each
\* method of the cache is one step, the client takes no lock of its own
SpecConcurrent == Init /\ [][ConcurrentNext]_vars

\* one call of calculationPromptMaxTokens
CalculationInit ==
    /\ BuildPromptIdle /\ New /\ ThreadsReady /\ CalculationCall /\ AskIdle
    /\ NothingHeld

CalculationNext == Calculate

SpecCalculation == CalculationInit /\ [][CalculationNext]_vars

\* one call of Ask
AskInit ==
    /\ BuildPromptIdle /\ New /\ ThreadsReady /\ CalculationIdle /\ AskCall
    /\ NothingHeld

AskNext == Ask

SpecAsk == AskInit /\ [][AskNext]_vars

\* the client used by one caller that keeps the first conversation it was
\* returned and goes on calling the client
StoreOperation ==
    \/ KeeperGetOrCreateConversation
    \/ CallResetConversations
    \/ CallResetConversation
    \/ CallChangeConversationModel

ReferencesNext ==
    \/ StoreOperation
    \/ HeldTick
    \/ Hold
    \/ HeldSetModel

SpecReferences == Init /\ [][ReferencesNext]_vars

(***************************************************************************)
(* Properties of the conversation cache, one caller at a time (Spec)       *)
(***************************************************************************)
\* the keys that have an entry in the cache
Keys(cache) == {cache[k].key : k \in 1..Len(cache)}

\* key has an entry that is not past its time-to-live
Live(cache, key, t) ==
    /\ Position(cache, key) # 0
    /\ ~Expired(cache[Position(cache, key)], t)

\* key has an entry that is past its time-to-live
Stale(cache, key, t) ==
    /\ Position(cache, key) # 0
    /\ Expired(cache[Position(cache, key)], t)

\* the object stored under key
Stored(cache, key) == cache[Position(cache, key)].value

\* object o is held by an entry that is not past its time-to-live
HeldLive(cache, o, t) ==
    \E k \in 1..Len(cache) : cache[k].value = o /\ ~Expired(cache[k], t)

\* the call constructed a conversation
Constructed == ret'.conversation = Len(conversations) + 1

\* C5 (as stated): once GetOrCreateConversation(id, cfgA) has left a
\* conversation under id, GetOrCreateConversation(id, cfgB) before its expiry,
\* with no reset or eviction in between (the entry of id is live), returns
\* that same conversation with the settings it had, whatever cfgB is.
C5_Original ==
    [][\A id \in Ids, cfgB \in ConversationConfig :
          ( /\ Live(conversationsCache, id, now)
            /\ GetOrCreateConversation(id, cfgB) )
          => /\ ret'.conversation = Stored(conversationsCache, id)
             /\ conversations'[Stored(conversationsCache, id)]
                  = conversations[Stored(conversationsCache, id)]]_vars

\* C6: the cache never holds more than MaxConversations entries, and
\* inserting a new id while MaxConversations conversations are live leaves
\* exactly MaxConversations live entries: the new one and all the old ones
\* but the least recently used.
C6_EvictionCapacity ==
    /\ [](Len(conversationsCache) <= MaxConversations)
    /\ [][\A id \in Ids, cfg \in ConversationConfig :
            ( /\ Len(conversationsCache) = MaxConversations
              /\ id \notin Keys(conversationsCache)
              /\ \A key \in Keys(conversationsCache) :
                    Live(conversationsCache, key, now)
              /\ Constructed
              /\ GetOrCreateConversation(id, cfg) )
            => /\ Len(conversationsCache') = MaxConversations
               /\ \A key \in Keys(conversationsCache') :
                     Live(conversationsCache', key, now')
               /\ Keys(conversationsCache')
                    = (Keys(conversationsCache) \cup {id})
                        \ {conversationsCache[MaxConversations].key}
               /\ \A key \in Keys(conversationsCache') \ {id} :
                     Stored(conversationsCache', key)
                        = Stored(conversationsCache, key)]_vars

\* C6 witness: more conversations were constructed than the cache holds, the
\* last one is in a full cache of live entries and an id has lost its entry.
C6_Witness ==
    /\ ret.conversation > MaxConversations
    /\ Len(conversationsCache) = MaxConversations
    /\ conversationsCache[1].value = ret.conversation
    /\ \A key \in Keys(conversationsCache) :
          Live(conversationsCache, key, now)
    /\ Ids \ Keys(conversationsCache) # {}
    /\ now = 0

\* C8: ChangeConversationModel(id, model) returns the not-found error and
\* changes no model when id has no live entry; otherwise it returns no error,
\* sets the model of the conversation stored under id and of no other, and
\* neither adds nor removes an entry.
C8_ChangeModel ==
    [][\A id \in Ids, model \in Models :
          ChangeConversationModel(id, model) =>
            IF ~Live(conversationsCache, id, now)
                THEN /\ ret'.err = NotFound
                     /\ \A o \in Referenced(conversationsCache', ret') \ {nil} :
                           conversations'[o].Model = conversations[o].Model
                ELSE /\ ret'.err = NoError
                     /\ conversations'[Stored(conversationsCache, id)]
                          = [conversations[Stored(conversationsCache, id)]
                                EXCEPT !.Model = model]
                     /\ \A key \in Keys(conversationsCache) \ {id} :
                           conversations'[Stored(conversationsCache, key)]
                             = conversations[Stored(conversationsCache, key)]
                     /\ Keys(conversationsCache') = Keys(conversationsCache)
                     /\ \A key \in Keys(conversationsCache) :
                           Stored(conversationsCache', key)
                             = Stored(conversationsCache, key)]_vars

\* C8 witness: a model change succeeded on one of two live conversations and
\* the other still has the model it was constructed with.
C8_Witness ==
    /\ ret = [conversation |-> nil, err |-> NoError]
    /\ Len(conversationsCache) = 2
    /\ \E id \in Keys(conversationsCache) :
          /\ Live(conversationsCache, id, now)
          /\ conversationsCache[1].key = id
          /\ conversations[Stored(conversationsCache, id)].Model \in Models
          /\ \A key \in Keys(conversationsCache) \ {id} :
                conversations[Stored(conversationsCache, key)].Model = ""

\* C9 (as stated): an entry touched after its max age has elapsed is treated
\* as absent: GetOrCreateConversation for its id constructs a conversation
\* and inserts it under the id, ChangeConversationModel for its id fails with
\* not-found, and the passing of time alone removes nothing.
C9_Original ==
    [][ /\ \A id \in Ids, cfg \in ConversationConfig :
              ( /\ Stale(conversationsCache, id, now)
                /\ GetOrCreateConversation(id, cfg) )
              => /\ Constructed
                 /\ Live(conversationsCache', id, now')
                 /\ Stored(conversationsCache', id) = ret'.conversation
        /\ \A id \in Ids, model \in Models :
              ( /\ Stale(conversationsCache, id, now)
                /\ ChangeConversationModel(id, model) )
              => /\ ret'.err = NotFound
                 /\ \A o \in Referenced(conversationsCache', ret') \ {nil} :
                       conversations'[o] = conversations[o]
        /\ Tick => conversationsCache' = conversationsCache ]_vars

\* the state is one ResetConversation(id) leaves: no entry for id, nil
\* returned
AfterReset(id) ==
    /\ id \notin Keys(conversationsCache)
    /\ ret = [conversation |-> nil, err |-> NoError]

\* C10 (as stated): ResetConversation(id) removes the entry of id whatever
\* its age, returns no error whether or not id had an entry, leaves every
\* other entry and its conversation unchanged, and the next
\* GetOrCreateConversation(id) constructs a conversation.
C10_Original ==
    [][ /\ \A id \in Ids :
              ResetConversation(id) =>
                /\ ret'.err = NoError
                /\ id \notin Keys(conversationsCache')
                /\ conversationsCache'
                     = SelectSeq(conversationsCache,
                                 LAMBDA e : e.key # id)
                /\ \A key \in Keys(conversationsCache) \ {id} :
                      conversations'[Stored(conversationsCache, key)]
                        = conversations[Stored(conversationsCache, key)]
        /\ \A id \in Ids, cfg \in ConversationConfig :
              ( /\ AfterReset(id)
                /\ GetOrCreateConversation(id, cfg) )
              => Constructed ]_vars

(***************************************************************************)
(* Properties of the client under concurrent callers (SpecConcurrent)      *)
(***************************************************************************)
\* callers t and u have returned from overlapping GetOrCreateConversation
\* calls for the same id, looked up under that id and absent for both
RacedOnAbsent(t, u) ==
    /\ t # u
    /\ pc[t] = "ready" /\ pc[u] = "ready"
    /\ call[t].op = "GetOrCreateConversation"
    /\ call[u].op = "GetOrCreateConversation"
    /\ call[t].id = call[u].id
    /\ call[t].ownKey /\ call[u].ownKey
    /\ call[t].absent /\ call[u].absent
    /\ u \in call[t].overlapped /\ t \in call[u].overlapped

\* C7 (as stated): get-or-create, reset and model-change are atomic for
\* concurrent callers: two overlapping GetOrCreateConversation calls for the
\* same absent id return the same conversation, and a ChangeConversationModel
\* that succeeds sets the model of a conversation that is live in the cache
\* at that moment.
C7_Original ==
    /\ [](\A t, u \in Threads :
            RacedOnAbsent(t, u)
                => result[t].conversation = result[u].conversation)
    /\ [][\A t \in Threads :
            ThreadSetModel(t)
                => HeldLive(conversationsCache, call[t].object, now)]_vars

(***************************************************************************)
(* Further properties of buildPrompt (checked under SpecBuildPrompt)       *)
(***************************************************************************)
\* the ForEach walk as a function: the number of messages accepted from walk
\* position j on, the budget counter being count
RECURSIVE WalkFrom(_, _, _)
WalkFrom(j, count, maxLen) ==
    IF j > Len(messages) THEN 0
    ELSE IF ShouldStop(maxLen, count, LengthWithSeparator(j)) THEN 0
    ELSE 1 + WalkFrom(j + 1, count + LengthWithSeparator(j), maxLen)

\* the number of messages buildPrompt includes for a given maxLength
IncludedFor(maxLen) == WalkFrom(1, InitialBudget, maxLen)

\* C20: for maxLength > 0, once a message has been accepted the running
\* budget is below maxLength after every accepted message, the returned
\* prompt is shorter than maxLength plus one separator, and a maxLength
\* smaller by one, if positive, includes no more messages than this one does
\* (so that, step by step, no smaller positive maxLength does).
C20_BudgetBelowMaxLength ==
    (maxLength > 0 /\ accepted > 0) =>
        /\ charCountRes < maxLength
        /\ bpPc = "done" =>
              /\ Len(prompt) < maxLength + Len(endOfText)
              /\ accepted = IncludedFor(maxLength)
              /\ maxLength > 1 => IncludedFor(maxLength - 1) <= accepted

\* C20 witness: a returned prompt with an included message that one
\* character less of maxLength would have left out.
C20_Witness ==
    /\ bpPc = "done"
    /\ maxLength > 1
    /\ accepted > 0
    /\ IncludedFor(maxLength - 1) < accepted
    /\ Len(prompt) >= maxLength

\* the assistant names a conversation can carry after GetOrCreateConversation
\* has filled in its configuration
AssistantNames == {Defaults("a", cfg).ChatGPTName : cfg \in ConversationConfig}

\* a message as the claim renders it for an assistant name
RenderedFor(name, message) ==
    IF message.IsChatGPT
        THEN name \o ":\n\n" \o message.Text
        ELSE IF message.User # ""
            THEN message.User \o ":\n\n" \o message.Text
            ELSE "User:\n\n" \o message.Text

\* the claim's coreBlock for an assistant name
RECURSIVE CoreBlockFor(_, _)
CoreBlockFor(name, s) ==
    IF s = <<>> THEN ""
    ELSE RenderedFor(name, Head(s)) \o endOfText \o CoreBlockFor(name, Tail(s))

\* the claim's output for an assistant name
OutputFor(name) ==
    context \o "\nCurrent date: " \o date \o "<|endoftext|>\n\n"
        \o CoreBlockFor(name, Newest(accepted)) \o name \o ":"

\* C16: the returned prompt is header + separator + coreBlock + trailer with
\* the trailer and the assistant turns carrying the assistant name of the
\* conversation, whichever name the conversation is configured with.
C16_Original ==
    bpPc = "done" => \A name \in AssistantNames : prompt = OutputFor(name)

(***************************************************************************)
(* Properties of calculationPromptMaxTokens (SpecCalculation)              *)
(***************************************************************************)
\* the larger and the smaller of two integers, by their defining property
Larger(x, y) == CHOOSE z \in {x, y} : z >= x /\ z >= y

Smaller(x, y) == CHOOSE z \in {x, y} : z <= x /\ z <= y

\* the response-budget formula of the specification
ResponseBudget(promptLength, maxRequestResponseBudget, minResponseBudget) ==
    Larger(minResponseBudget,
           Smaller(maxRequestResponseBudget - promptLength, minResponseBudget))

\* the arguments of the call under way, as <<promptLength,
\* maxRequestResponseBudget, minResponseBudget>>
Arguments ==
    <<calcArgs.questLength, calcArgs.MaxRequestResponseTokens,
      calcArgs.MaxResponseTokens>>

\* C12: calculationPromptMaxTokens returns max(minResponseBudget,
\* min(maxRequestResponseBudget - promptLength, minResponseBudget)), and 50
\* for (100, 1000, 50), (100, 120, 50) and (10, 1000, 50).
C12_BudgetFormula ==
    calcPc = "returned" =>
        /\ calcResult = ResponseBudget(Arguments[1], Arguments[2], Arguments[3])
        /\ Arguments \in {<<100, 1000, 50>>, <<100, 120, 50>>, <<10, 1000, 50>>}
               => calcResult = 50

\* C12 witness: the call of the second documented example has returned, the
\* floor above the room that is left.
C12_Witness ==
    /\ calcPc = "returned"
    /\ Arguments = <<100, 120, 50>>
    /\ Arguments[2] - Arguments[1] < calcResult

\* C18: the returned budget is never below the floor, fits the room left
\* whenever the room is at least the floor, and is the floor itself whatever
\* the prompt length and the combined budget are.
C18_BudgetBounds ==
    calcPc = "returned" =>
        /\ calcResult >= Arguments[3]
        /\ Arguments[2] - Arguments[1] >= Arguments[3]
               => Arguments[1] + calcResult <= Arguments[2]
        /\ calcResult = Arguments[3]

\* C18 witness: a returned call with more room left than the floor, the
\* budget being the floor and the prompt not empty.
C18_Witness ==
    /\ calcPc = "returned"
    /\ Arguments[1] > 0
    /\ Arguments[3] > 0
    /\ Arguments[2] - Arguments[1] > Arguments[3]
    /\ calcResult = Arguments[3]

(***************************************************************************)
(* Properties of Ask (SpecAsk)                                             *)
(***************************************************************************)
\* Ask has ended, by a return or otherwise
AskEnded == askPc \notin {"idle", "called"}

\* the text of the first choice with no white space at either end
Trimmed(text) ==
    /\ text # <<>> => ~IsSpace(text[1]) /\ ~IsSpace(text[Len(text)])
    /\ \E i, j \in 0..Len(completion.Choices[1]) :
           /\ text = SubSeq(completion.Choices[1], i + 1, j)
           /\ \A k \in (1..i) \cup ((j + 1)..Len(completion.Choices[1])) :
                  IsSpace(completion.Choices[1][k])

\* C13: a call of Ask that has ended has sent exactly one request and has
\* returned, either the trimmed answer text with no error or the error of the
\* remote call with no answer, whatever the remote API returned.
C13_Original ==
    AskEnded =>
        /\ Len(requests) = 1
        /\ askPc = "returned"
        /\ \/ /\ askRet.err = NoError
              /\ completion.err = NoError
              /\ askRet.answer # NoAnswer
              /\ completion.Choices # <<>> => Trimmed(askRet.answer[1])
           \/ /\ askRet.err # NoError
              /\ askRet.err = completion.err
              /\ askRet.answer = NoAnswer

\* the recognised chat-completion model identifiers
ChatModelIdentifiers == {"gpt-3.5-turbo", "gpt-3.5-turbo-0301"}

\* the history as role-tagged records, one per message, in order
RoleTagged(history) ==
    [i \in 1..Len(history) |->
        [Role |-> history[i].Role, Content |-> history[i].Text]]

\* the sum of the text lengths of a history
RECURSIVE SumOfTextLengths(_)
SumOfTextLengths(history) ==
    IF history = <<>> THEN 0
    ELSE Len(Head(history).Text) + SumOfTextLengths(Tail(history))

\* C14: a call of Ask for a chat-completion model identifier sends only a
\* chat completion request, with the role-tagged message list; for any other
\* model it sends only a plain completion request, with the prompt; either
\* way the max-token argument is the response-budget formula applied to the
\* length of what is sent.
C14_Routing ==
    AskEnded =>
        /\ Len(requests) = 1
        /\ requests[1].Model = askCfg.Model
        /\ IF askCfg.Model \in ChatModelIdentifiers
               THEN /\ requests[1].op = "CreateChatCompletion"
                    /\ requests[1].Messages = RoleTagged(askCfg.Messages)
                    /\ requests[1].MaxTokens =
                           ResponseBudget(SumOfTextLengths(askCfg.Messages),
                               askCfg.MaxRequestResponseTokens,
                               askClientCfg.MaxResponseTokens)
               ELSE /\ requests[1].op = "CreateCompletion"
                    /\ requests[1].Prompt = askCfg.Prompt
                    /\ requests[1].MaxTokens =
                           ResponseBudget(Len(askCfg.Prompt),
                               askCfg.MaxRequestResponseTokens,
                               askClientCfg.MaxResponseTokens)

\* C14 witness: Ask has returned an answer for the second chat-completion
\* identifier, having sent a chat request of two messages.
C14_Witness ==
    /\ askPc = "returned"
    /\ askRet.err = NoError
    /\ askCfg.Model = "gpt-3.5-turbo-0301"
    /\ askCfg.Prompt # ""
    /\ Len(requests) = 1
    /\ requests[1].op = "CreateChatCompletion"
    /\ Len(requests[1].Messages) = 2

\* C17: on the chat path the request carries exactly one record per message
\* of the supplied history, the i-th record having the role and the text of
\* the i-th message.
C17_OneRecordPerMessage ==
    (AskEnded /\ requests[1].op = "CreateChatCompletion") =>
        /\ Len(requests[1].Messages) = Len(askCfg.Messages)
        /\ \A i \in 1..Len(askCfg.Messages) :
               /\ requests[1].Messages[i].Role = askCfg.Messages[i].Role
               /\ requests[1].Messages[i].Content = askCfg.Messages[i].Text

\* C17 witness: a chat request sent for a history of the greatest length
\* whose first and last messages differ in role and in text.
C17_Witness ==
    /\ AskEnded
    /\ requests[1].op = "CreateChatCompletion"
    /\ Len(askCfg.Messages) = MaxAskMessages
    /\ askCfg.Messages[1].Role # askCfg.Messages[MaxAskMessages].Role
    /\ askCfg.Messages[1].Text # askCfg.Messages[MaxAskMessages].Text
    /\ requests[1].Messages[1].Content = askCfg.Messages[1].Text

(***************************************************************************)
(* Further properties of the conversation cache (Spec)                     *)
(***************************************************************************)
\* a setting of a new conversation: the supplied one, or the client-level
\* one where the supplied one is unset
Merged(supplied, unset, clientLevel) ==
    IF supplied = unset THEN clientLevel ELSE supplied

\* C15: a conversation that GetOrCreateConversation constructs has, for each
\* of context, language, assistant name and max age, the supplied setting or,
\* where that is unset, the client-level one (ConversationContext,
\* ConversationLanguage, ChatGPTName, ConversationMaxAge), and its entry
\* expires that max age after the insertion.
C15_Original ==
    [][\A id \in Ids, cfg \in ConversationConfig :
          (Constructed /\ GetOrCreateConversation(id, cfg))
          => LET created == conversations'[ret'.conversation]
                 maxAge == Merged(cfg.MaxAge, 0,
                                  ClientConfig.ConversationMaxAge)
             IN  /\ created.Context
                      = Merged(cfg.Context, "",
                               ClientConfig.ConversationContext)
                 /\ created.Language
                      = Merged(cfg.Language, "",
                               ClientConfig.ConversationLanguage)
                 /\ created.ChatGPTName
                      = Merged(cfg.ChatGPTName, "", ClientConfig.ChatGPTName)
                 /\ created.MaxAge = maxAge
                 /\ id \in Keys(conversationsCache')
                 /\ conversationsCache'[Position(conversationsCache', id)]
                        .expiresAt = now + maxAge]_vars

\* C19: after GetOrCreateConversation(id, cfg), whatever cfg.ID is, the
\* returned conversation is the one stored live under id, and it is stored
\* under no other identifier.
C19_Original ==
    [][\A id \in Ids, cfg \in ConversationConfig :
          GetOrCreateConversation(id, cfg)
          => /\ Live(conversationsCache', id, now')
             /\ Stored(conversationsCache', id) = ret'.conversation
             /\ \A key \in Keys(conversationsCache') \ {id} :
                   Stored(conversationsCache', key) # ret'.conversation]_vars

(***************************************************************************)
(* Properties of conversations a caller keeps (SpecReferences)             *)
(***************************************************************************)
\* what the store shows: for every identifier, the conversation live under
\* it with its state, or Collected where there is none
Visible(cache, objects, t) ==
    [id \in Ids |->
        IF Live(cache, id, t)
            THEN <<Stored(cache, id), objects[Stored(cache, id)]>>
            ELSE <<nil, Collected>>]

\* the conversation the caller keeps is no longer live in the store: its
\* entry was evicted, reset, or is past its time-to-live
Removed == held # nil /\ ~HeldLive(conversationsCache, held, now)

\* the step is a call of a Client method
StoreStep == now' = now /\ held' = held /\ ~HeldSetModel

====
